---- MODULE Spec2Model ----
(***************************************************************************)
(* Model of the detection training script                                  *)
(* references/detection/train_pytorch.py (main, record_lr, fit_one_epoch,  *)
(* evaluate) and of the dataset contract exercised by                      *)
(* tests/tensorflow/test_datasets_tf.py.                                   *)
(*                                                                         *)
(* Three state machines share the module:                                  *)
(*   Spec    one call of main(args), stepped through its code positions    *)
(*   SpecLR  one call of record_lr, stepped batch by batch                 *)
(*   SpecDS  an image folder, a label file and dataset constructions       *)
(***************************************************************************)
EXTENDS Integers, Sequences, FiniteSets

(* ------------------------------ bounds -------------------------------- *)

\* largest value of --epochs explored
MaxEpochs == 3
\* finite validation losses are 0..MaxLoss
MaxLoss == 1
\* largest "ordinary" number of training batches explored
MaxBatches == 2
\* largest num_it handed to record_lr (the smallest is -1)
MaxNumIt == 4
\* largest len(train_loader) handed to record_lr
MaxLoaderLen == 4
\* number of images a label file names
MaxImages == 2
\* largest number of annotated words of one image
MaxWords == 2
\* largest --epochs of a training run followed batch by batch
MaxFitEpochs == 2
\* largest len(train_loader) of a training run followed batch by batch
MaxFitLen == 2

(* ----------------------------- constants ------------------------------ *)

\* default of record_lr's num_it parameter, the value main uses
NumItDefault == 100

(* --------------------------- float values ----------------------------- *)

\* np.inf: larger than every finite loss
Inf == MaxLoss + 1
\* a NaN loss: every ordered comparison with it is false
NaN == MaxLoss + 2

FiniteLosses == 0 .. MaxLoss
\* the values evaluate() can return as val_loss: out["loss"].item() summed
\* and divided by the batch count is a Python float
Losses == FiniteLosses \cup {Inf, NaN}

\* the float comparison a < b of line 525
LessThan(a, b) == a # NaN /\ b # NaN /\ a < b

(* ------------------------------ state --------------------------------- *)

VARIABLES
    pc,            \* position in main
    args,          \* the parsed command line
    nTrain,        \* len(train_loader)
    nVal,          \* len(val_loader)
    epoch,         \* loop variable of "for epoch in range(args.epochs)"
    min_loss,      \* main's min_loss
    val_loss,      \* main's val_loss
    weights,       \* number of fit_one_epoch calls the model weights went through
    files,         \* checkpoint files written: name -> weights saved in it
    created,       \* objects main has constructed so far
    events,        \* calls made so far, in order
    exc,           \* exception that ended main, or "none"
    rl,            \* frame of a record_lr call
    dsk,           \* image folder, label file and dataset construction
    ft             \* a training run seen batch by batch: scheduler, optimizer, gradients

vars == <<pc, args, nTrain, nVal, epoch, min_loss, val_loss, weights, files,
          created, events, exc, rl, dsk, ft>>

mainVars == <<pc, args, nTrain, nVal, epoch, min_loss, val_loss, weights,
              files, created, events, exc>>

(* ------------------------------ helpers ------------------------------- *)

\* a call of op made in epoch k (0: outside the loop) with argument or result v
Event(op, k, v) == [op |-> op, epoch |-> k, val |-> v, stop |-> FALSE]

\* a call early_stopper.early_stop(v) in epoch k that returned stop
StopEvent(k, v, stop) == [op |-> "early_stop", epoch |-> k, val |-> v, stop |-> stop]

\* indices of the events of operation op
EventsOf(op) == {i \in 1 .. Len(events) : events[i].op = op}

\* number of calls of op so far
Count(op) == Cardinality(EventsOf(op))

\* indices of the events of operation op in epoch k (counted from 1)
EventsIn(op, k) == {i \in EventsOf(op) : events[i].epoch = k}

\* name of the best-model checkpoint, f"./{exp_name}.pt"
BestFile == <<"best", 0>>
\* variant of EpochFile: the epoch number is left out of the name
EpochFileUnnumbered(k) == <<"epoch", 0>>

\* name of the per-epoch checkpoint, f"./{exp_name}_epoch{k}.pt"
EpochFile(k) == <<"epoch", k>>

\* torch.save(model.state_dict(), name): creates or overwrites the file
Save(fs, name, w) == {f \in fs : f.name # name} \cup {[name |-> name, w |-> w]}

\* the weights held by file name; the file exists in fs
Held(fs, name) == (CHOOSE f \in fs : f.name = name).w

Exists(fs, name) == \E f \in fs : f.name = name

ArgsSpace ==
    [test_only : BOOLEAN, show_samples : BOOLEAN, find_lr : BOOLEAN,
     early_stop : BOOLEAN, save_interval_epoch : BOOLEAN, wb : BOOLEAN,
     push_to_hub : BOOLEAN, epochs : 0 .. MaxEpochs]

\* loader lengths: empty, a few batches, and enough for the LR finder
TrainLens == {0, MaxBatches, NumItDefault}
ValLens == {0, 1}

(* ------------------------- idle sub-machines -------------------------- *)

RLIdle == [pc |-> "idle"]
DSIdle == [pc |-> "idle"]
FTIdle == [pc |-> "idle"]

(* ------------------------------- main --------------------------------- *)

MainInit ==
    /\ pc = "start"
    /\ args \in ArgsSpace
    /\ nTrain \in TrainLens
    /\ nVal \in ValLens
    /\ epoch = 0
    /\ min_loss = Inf
    /\ val_loss = Inf
    /\ weights = 0
    /\ files = {}
    /\ created = {}
    /\ events = <<>>
    /\ exc = "none"

Init == MainInit /\ rl = RLIdle /\ dsk = DSIdle /\ ft = FTIdle

\* main raises: nothing after the raising statement runs
Raise(e) ==
    /\ pc' = "raised"
    /\ exc' = e

\* lines 217-381: login, validation / FUNSD / CORD sets and loaders, model, metrics
Setup ==
    /\ pc = "start"
    /\ pc' = "test_only"
    /\ events' = IF args.push_to_hub THEN Append(events, Event("login_to_hub", 0, 0))
                                      ELSE events
    /\ created' = created \cup {"val_loader", "funsd_test_loader", "cord_test_loader", "model"}
    /\ UNCHANGED <<args, nTrain, nVal, epoch, min_loss, val_loss, weights, files, exc, rl, dsk, ft>>

\* evaluate(), lines 175-214: the division of line 212 raises on an empty loader
EvaluateRaises(n) == n = 0

\* variant of TestOnly: the evaluation is not followed by a return
TestOnlyNoReturn ==
    /\ pc = "test_only"
    /\ args.test_only
    /\ IF EvaluateRaises(nVal)
          THEN /\ Raise("ZeroDivisionError")
               /\ events' = Append(events, Event("evaluate", 0, NaN))
               /\ UNCHANGED val_loss
          ELSE \E loss \in Losses :
                 /\ pc' = "show_samples"
                 /\ val_loss' = loss
                 /\ events' = Append(events, Event("evaluate", 0, loss))
                 /\ UNCHANGED exc
    /\ UNCHANGED <<args, nTrain, nVal, epoch, min_loss, weights, files, created, rl, dsk, ft>>

\* lines 383-390: --test-only
TestOnly ==
    /\ pc = "test_only"
    /\ args.test_only
    /\ IF EvaluateRaises(nVal)
          THEN /\ Raise("ZeroDivisionError")
               /\ events' = Append(events, Event("evaluate", 0, NaN))
               /\ UNCHANGED val_loss
          ELSE \E loss \in Losses :
                 /\ pc' = "done"
                 /\ val_loss' = loss
                 /\ events' = Append(events, Event("evaluate", 0, loss))
                 /\ UNCHANGED exc
    /\ UNCHANGED <<args, nTrain, nVal, epoch, min_loss, weights, files, created, rl, dsk, ft>>

\* lines 392-441: training set and loader
LoadTrain ==
    /\ pc = "test_only"
    /\ ~args.test_only
    /\ pc' = "show_samples"
    /\ created' = created \cup {"train_loader"}
    /\ UNCHANGED <<args, nTrain, nVal, epoch, min_loss, val_loss, weights, files, events, exc, rl, dsk, ft>>

\* variant of ShowSamples: the plot is not followed by a return
ShowSamplesNoReturn ==
    /\ pc = "show_samples"
    /\ args.show_samples
    /\ IF nTrain = 0
          THEN Raise("StopIteration") /\ UNCHANGED events
          ELSE /\ pc' = "find_lr"
               /\ events' = Append(events, Event("plot_samples", 0, 1))
               /\ UNCHANGED exc
    /\ UNCHANGED <<args, nTrain, nVal, epoch, min_loss, val_loss, weights, files, created, rl, dsk, ft>>

\* lines 443-446: --show-samples; next(iter(train_loader)) raises on an empty loader
ShowSamples ==
    /\ pc = "show_samples"
    /\ args.show_samples
    /\ IF nTrain = 0
          THEN Raise("StopIteration") /\ UNCHANGED events
          ELSE /\ pc' = "done"
               /\ events' = Append(events, Event("plot_samples", 0, 1))
               /\ UNCHANGED exc
    /\ UNCHANGED <<args, nTrain, nVal, epoch, min_loss, val_loss, weights, files, created, rl, dsk, ft>>

\* lines 448-460: backbone freezing and the Adam optimizer
MakeOptimizer ==
    /\ pc = "show_samples"
    /\ ~args.show_samples
    /\ pc' = "find_lr"
    /\ created' = created \cup {"optimizer"}
    /\ UNCHANGED <<args, nTrain, nVal, epoch, min_loss, val_loss, weights, files, events, exc, rl, dsk, ft>>

\* record_lr, lines 76-77: the guard on num_it
NumItRejected(num_it, len) == num_it > len

\* lines 461-465: --find-lr; record_lr is called with its default num_it and
\* raises at its guard, or on a non-finite first loss, or returns
FindLr ==
    /\ pc = "find_lr"
    /\ args.find_lr
    /\ \/ /\ NumItRejected(NumItDefault, nTrain)
          /\ Raise("ValueError")
          /\ events' = Append(events, Event("record_lr", 0, 0))
       \/ /\ ~NumItRejected(NumItDefault, nTrain)
          /\ Raise("ValueError")
          /\ events' = Append(events, Event("record_lr", 0, 1))
       \/ /\ ~NumItRejected(NumItDefault, nTrain)
          /\ pc' = "done"
          /\ events' = Append(Append(events, Event("record_lr", 0, NumItDefault)),
                              Event("plot_recorder", 0, 0))
          /\ UNCHANGED exc
    /\ UNCHANGED <<args, nTrain, nVal, epoch, min_loss, val_loss, weights, files, created, rl, dsk, ft>>

\* lines 466-504: scheduler, experiment name, wandb.init, min_loss, early stopper
Prepare ==
    /\ pc = "find_lr"
    /\ ~args.find_lr
    /\ pc' = "loop"
    /\ created' = created \cup {"scheduler"}
                          \cup (IF args.early_stop THEN {"early_stopper"} ELSE {})
    /\ events' = IF args.wb THEN Append(events, Event("wandb_init", 0, 0)) ELSE events
    /\ min_loss' = Inf
    /\ epoch' = 0
    /\ UNCHANGED <<args, nTrain, nVal, val_loss, weights, files, exc, rl, dsk, ft>>

\* fit_one_epoch, lines 134-172: line 172 reads train_loss, which is unbound
\* when the loader yielded no batch
FitRaises(n) == n = 0

\* lines 507-508: the loop header and fit_one_epoch over the train loader
FitOneEpoch ==
    /\ pc = "loop"
    /\ epoch < args.epochs
    /\ events' = Append(events, Event("fit_one_epoch", epoch + 1, nTrain))
    /\ IF FitRaises(nTrain)
          THEN Raise("UnboundLocalError") /\ UNCHANGED weights
          ELSE pc' = "evaluate" /\ weights' = weights + 1 /\ UNCHANGED exc
    /\ UNCHANGED <<args, nTrain, nVal, epoch, min_loss, val_loss, files, created, rl, dsk, ft>>

\* lines 510-524: evaluate on the validation loader, then on FUNSD and CORD
\* (whose exceptions are swallowed)
Evaluate ==
    /\ pc = "evaluate"
    /\ IF EvaluateRaises(nVal)
          THEN /\ Raise("ZeroDivisionError")
               /\ events' = Append(events, Event("evaluate", epoch + 1, NaN))
               /\ UNCHANGED val_loss
          ELSE \E loss \in Losses :
                 /\ pc' = "checkpoint"
                 /\ val_loss' = loss
                 /\ events' = events \o <<Event("evaluate", epoch + 1, loss),
                                          Event("evaluate_funsd", epoch + 1, 0),
                                          Event("evaluate_cord", epoch + 1, 0)>>
                 /\ UNCHANGED exc
    /\ UNCHANGED <<args, nTrain, nVal, epoch, min_loss, weights, files, created, rl, dsk, ft>>

\* variant of Improved: a loss equal to the best one also counts
ImprovedOrEqual(loss, best) == loss # NaN /\ best # NaN /\ loss <= best

\* line 525: is this epoch's loss an improvement
Improved(loss, best) == LessThan(loss, best)

\* lines 525-532: best-model checkpoint and per-epoch checkpoint
Checkpoint ==
    /\ pc = "checkpoint"
    /\ pc' = "log"
    /\ LET best == Improved(val_loss, min_loss)
           f1 == IF best THEN Save(files, BestFile, weights) ELSE files
           e1 == IF best THEN Append(events, Event("save_best", epoch + 1, weights))
                         ELSE events
       IN  /\ min_loss' = IF best THEN val_loss ELSE min_loss
           /\ files' = IF args.save_interval_epoch
                          THEN Save(f1, EpochFile(epoch + 1), weights)
                          ELSE f1
           /\ events' = IF args.save_interval_epoch
                           THEN Append(e1, Event("save_epoch", epoch + 1, weights))
                           ELSE e1
    /\ UNCHANGED <<args, nTrain, nVal, epoch, val_loss, weights, created, exc, rl, dsk, ft>>

\* variant of Log: the epoch is reported without wandb.log
LogWithoutWandb ==
    /\ pc = "log"
    /\ pc' = "early_stop"
    /\ events' = Append(events, Event("log", epoch + 1, val_loss))
    /\ UNCHANGED <<args, nTrain, nVal, epoch, min_loss, val_loss, weights, files, created, exc, rl, dsk, ft>>

\* lines 533-551: the epoch's log message and wandb.log
Log ==
    /\ pc = "log"
    /\ pc' = "early_stop"
    /\ events' = IF args.wb
                    THEN events \o <<Event("log", epoch + 1, val_loss),
                                     Event("wandb_log", epoch + 1, val_loss)>>
                    ELSE Append(events, Event("log", epoch + 1, val_loss))
    /\ UNCHANGED <<args, nTrain, nVal, epoch, min_loss, val_loss, weights, files, created, exc, rl, dsk, ft>>

\* variant of AfterStop: the verdict of the early stopper is ignored
AfterStopIgnored(stop) == "loop"

\* where the loop goes after early_stop returned stop
AfterStop(stop) == IF stop THEN "after_loop" ELSE "loop"

\* lines 552-554: "args.early_stop and early_stopper.early_stop(val_loss)";
\* EarlyStopper lives in utils, its verdict is any boolean
EarlyStop ==
    /\ pc = "early_stop"
    /\ IF args.early_stop
          THEN \E stop \in BOOLEAN :
                 /\ events' = Append(events, StopEvent(epoch + 1, val_loss, stop))
                 /\ pc' = AfterStop(stop)
                 /\ epoch' = IF stop THEN epoch ELSE epoch + 1
          ELSE /\ pc' = "loop"
               /\ epoch' = epoch + 1
               /\ UNCHANGED events
    /\ UNCHANGED <<args, nTrain, nVal, min_loss, val_loss, weights, files, created, exc, rl, dsk, ft>>

\* variant of LoopExit: the loop may be left before range(args.epochs) is exhausted
LoopExitEarly ==
    /\ pc = "loop"
    /\ pc' = "after_loop"
    /\ UNCHANGED <<args, nTrain, nVal, epoch, min_loss, val_loss, weights, files, created, events, exc, rl, dsk, ft>>

\* line 507: range(args.epochs) is exhausted
LoopExit ==
    /\ pc = "loop"
    /\ ~(epoch < args.epochs)
    /\ pc' = "after_loop"
    /\ UNCHANGED <<args, nTrain, nVal, epoch, min_loss, val_loss, weights, files, created, events, exc, rl, dsk, ft>>

\* lines 555-559: run.finish and push_to_hf_hub
Finish ==
    /\ pc = "after_loop"
    /\ pc' = "done"
    /\ events' = events
                 \o (IF args.wb THEN <<Event("run_finish", 0, 0)>> ELSE <<>>)
                 \o (IF args.push_to_hub THEN <<Event("push_to_hf_hub", 0, weights)>> ELSE <<>>)
    /\ UNCHANGED <<args, nTrain, nVal, epoch, min_loss, val_loss, weights, files, created, exc, rl, dsk, ft>>

(* ----------------------------- record_lr ------------------------------ *)

\* the frame of a call record_lr(model, train_loader, ..., num_it=n) on a
\* loader of len batches, before its first statement
RLFrame(n, len) ==
    [pc |-> "entry", num_it |-> n, len |-> len,
     batch_idx |-> 0,
     training |-> FALSE,        \* model.train() has been called
     lr_set |-> FALSE,          \* the optimizer's lr was overwritten with start_lr
     has_scheduler |-> FALSE,
     steps |-> 0,               \* batches processed: optimizer and scheduler steps
     nonfinite |-> FALSE,       \* some batch loss was NaN or inf
     lr_recorder |-> <<>>,
     loss_recorder |-> <<>>,
     exc |-> "none",
     lrs |-> <<>>, losses |-> <<>>]   \* the returned pair

RLInit == rl \in {RLFrame(n, len) : n \in (0 - 1) .. MaxNumIt, len \in 0 .. MaxLoaderLen}

MainIdle ==
    /\ pc = "idle"
    /\ args = [test_only |-> FALSE, show_samples |-> FALSE, find_lr |-> FALSE,
               early_stop |-> FALSE, save_interval_epoch |-> FALSE, wb |-> FALSE,
               push_to_hub |-> FALSE, epochs |-> 0]
    /\ nTrain = 0
    /\ nVal = 0
    /\ epoch = 0
    /\ min_loss = Inf
    /\ val_loss = Inf
    /\ weights = 0
    /\ files = {}
    /\ created = {}
    /\ events = <<>>
    /\ exc = "none"

InitLR == MainIdle /\ RLInit /\ dsk = DSIdle /\ ft = FTIdle

\* [idx for idx in range(n)]: the exponents of gamma in lr_recorder, line 88
Range(n) == [i \in 1 .. (IF n > 0 THEN n ELSE 0) |-> i - 1]

\* seq[:n] for n >= 0
Prefix(seq, n) == SubSeq(seq, 1, IF n < Len(seq) THEN n ELSE Len(seq))

\* lines 76-77
RL_Guard ==
    /\ rl.pc = "entry"
    /\ rl' = IF NumItRejected(rl.num_it, rl.len)
                THEN [rl EXCEPT !.pc = "raised", !.exc = "ValueError"]
                ELSE [rl EXCEPT !.pc = "setup"]
    /\ UNCHANGED mainVars
    /\ UNCHANGED <<dsk, ft>>

\* line 85: 1 / (num_it - 1) divides by zero
GammaRaises(n) == n - 1 = 0

\* lines 79-92: train mode, start_lr, gamma, scheduler, the two recorders
RL_Setup ==
    /\ rl.pc = "setup"
    /\ rl' = IF GammaRaises(rl.num_it)
                THEN [rl EXCEPT !.pc = "raised", !.exc = "ZeroDivisionError",
                                !.training = TRUE, !.lr_set = TRUE]
                ELSE [rl EXCEPT !.pc = "loop",
                                !.training = TRUE, !.lr_set = TRUE,
                                !.has_scheduler = TRUE,
                                !.lr_recorder = Range(rl.num_it),
                                !.loss_recorder = <<>>]
    /\ UNCHANGED mainVars
    /\ UNCHANGED <<dsk, ft>>

\* lines 94-129: one batch of the loop; its loss is finite or not
RL_Batch ==
    /\ rl.pc = "loop"
    /\ rl.batch_idx < rl.len
    /\ \E finite \in BOOLEAN :
         rl' = IF ~finite
                  THEN IF rl.batch_idx = 0
                          THEN [rl EXCEPT !.pc = "raised", !.exc = "ValueError",
                                          !.steps = @ + 1, !.nonfinite = TRUE]
                          ELSE [rl EXCEPT !.pc = "return",
                                          !.steps = @ + 1, !.nonfinite = TRUE]
                  ELSE IF rl.batch_idx + 1 = rl.num_it
                          THEN [rl EXCEPT !.pc = "return", !.steps = @ + 1,
                                          !.loss_recorder = Append(@, rl.batch_idx)]
                          ELSE [rl EXCEPT !.batch_idx = @ + 1, !.steps = @ + 1,
                                          !.loss_recorder = Append(@, rl.batch_idx)]
    /\ UNCHANGED mainVars
    /\ UNCHANGED <<dsk, ft>>

\* line 94: the loader is exhausted
RL_Exhausted ==
    /\ rl.pc = "loop"
    /\ ~(rl.batch_idx < rl.len)
    /\ rl' = [rl EXCEPT !.pc = "return"]
    /\ UNCHANGED mainVars
    /\ UNCHANGED <<dsk, ft>>

\* line 131
RL_Return ==
    /\ rl.pc = "return"
    /\ rl' = [rl EXCEPT !.pc = "returned",
                        !.lrs = Prefix(rl.lr_recorder, Len(rl.loss_recorder)),
                        !.losses = rl.loss_recorder]
    /\ UNCHANGED mainVars
    /\ UNCHANGED <<dsk, ft>>

NextLR ==
    \/ RL_Guard
    \/ RL_Setup
    \/ RL_Batch
    \/ RL_Exhausted
    \/ RL_Return

SpecLR == InitLR /\ [][NextLR]_vars

(* ------------------------------ datasets ------------------------------ *)

\* the dataset classes of doctr.datasets the tests construct
FolderKinds == {"DetectionDataset", "RecognitionDataset", "OCRDataset"}
DictKinds == {"OCRDataset", "IC13", "SVHN", "SROIE", "FUNSD", "CORD", "SynthText",
              "DocArtefacts", "IIIT5K", "SVT", "IC03"}
Kinds == FolderKinds \cup DictKinds

ImageNames == 1 .. MaxImages

\* transcriptions of a word; "" is an empty transcription
Words == {"", "a"}

\* one annotated word of a label file: a box of 4 floats and its transcription
Annotation(w) == [box |-> 4, label |-> w]

\* the annotations of one image: up to MaxWords words
AnnotationLists ==
    UNION {[1 .. n -> {Annotation(w) : w \in Words}] : n \in 0 .. MaxWords}

\* the label files: every image name with its annotations
LabelFiles == [ImageNames -> AnnotationLists]

\* a box as the dataset returns it: 4 floats, or 5 with rotated boxes
ConvertBox(b, rotated) == IF rotated THEN b + 1 ELSE b

\* variant of BuildTarget: words with an empty transcription lose their label
\* but keep their box
BuildTargetDropEmpty(kind, anns, rotated) ==
    IF kind \in DictKinds
       THEN [boxes |-> [i \in 1 .. Len(anns) |-> ConvertBox(anns[i].box, rotated)],
             labels |-> SelectSeq([i \in 1 .. Len(anns) |-> anns[i].label],
                                  LAMBDA w : w # "")]
       ELSE IF kind = "DetectionDataset"
               THEN [boxes |-> [i \in 1 .. Len(anns) |-> ConvertBox(anns[i].box, rotated)],
                     labels |-> <<>>]
               ELSE [boxes |-> <<>>,
                     labels |-> [i \in 1 .. Len(anns) |-> anns[i].label]]

\* the target of one sample: boxes and labels taken from the same annotations
\* (a DetectionDataset keeps the boxes only, a RecognitionDataset the
\* transcriptions only)
BuildTarget(kind, anns, rotated) ==
    IF kind \in DictKinds
       THEN [boxes |-> [i \in 1 .. Len(anns) |-> ConvertBox(anns[i].box, rotated)],
             labels |-> [i \in 1 .. Len(anns) |-> anns[i].label]]
       ELSE IF kind = "DetectionDataset"
               THEN [boxes |-> [i \in 1 .. Len(anns) |-> ConvertBox(anns[i].box, rotated)],
                     labels |-> <<>>]
               ELSE [boxes |-> <<>>,
                     labels |-> [i \in 1 .. Len(anns) |-> anns[i].label]]

\* variant of MissingImages: the image files are not looked at when the
\* dataset is constructed
MissingImagesUnchecked(labels, present) == {}

\* the images the label file names that are not in the image folder
MissingImages(labels, present) == {n \in DOMAIN labels : n \notin present}

NoDataset == [kind |-> "none", rotated |-> FALSE, data |-> <<>>]

DSInit ==
    \E lf \in LabelFiles :
        dsk = [pc |-> "ready",
               labels |-> lf,                 \* the label file
               present |-> ImageNames,        \* the files of the image folder
               seen |-> ImageNames,           \* the folder as the last construction found it
               result |-> "none",             \* outcome of the last construction
               tried |-> "none",              \* the class it was a construction of
               ds |-> NoDataset,              \* the dataset it returned
               failed |-> FALSE,              \* some construction raised
               got |-> NoDataset.data]        \* the sample fetched from ds, if any

InitDS == MainIdle /\ rl = RLIdle /\ DSInit /\ ft = FTIdle

\* the constructor of a dataset class: every image the label file names must
\* exist, then every entry is (image name, target). Only the folder-based
\* classes are constructed on a folder with a file moved away.
DS_Construct ==
    /\ dsk.pc = "ready"
    /\ \E kind \in Kinds, rotated \in BOOLEAN :
         IF MissingImages(dsk.labels, dsk.present) # {}
            THEN /\ kind \in FolderKinds
                 /\ dsk' = [dsk EXCEPT !.result = "FileNotFoundError", !.failed = TRUE,
                                       !.tried = kind,
                                       !.seen = dsk.present,
                                       !.ds = NoDataset, !.got = <<>>]
            ELSE dsk' = [dsk EXCEPT
                           !.result = "ok",
                           !.tried = kind,
                           !.seen = dsk.present,
                           !.ds = [kind |-> kind, rotated |-> rotated,
                                   data |-> [n \in ImageNames |->
                                               [img |-> n,
                                                target |-> BuildTarget(kind, dsk.labels[n], rotated)]]],
                           !.got = <<>>]
    /\ UNCHANGED mainVars
    /\ UNCHANGED <<rl, ft>>

\* img, target = ds[0]: the first sample of the constructed dataset
DS_GetItem ==
    /\ dsk.pc = "ready"
    /\ dsk.result = "ok"
    /\ dsk.got = <<>>
    /\ dsk' = [dsk EXCEPT !.got = <<dsk.ds.data[1]>>]
    /\ UNCHANGED mainVars
    /\ UNCHANGED <<rl, ft>>

\* move(os.path.join(ds.root, img_name), os.path.join(ds.root, "tmp_file")):
\* the one name tmp_file holds at most one image at a time
DS_MoveAway ==
    /\ dsk.pc = "ready"
    /\ dsk.present = ImageNames
    /\ \E n \in dsk.present :
         dsk' = [dsk EXCEPT !.present = @ \ {n}]
    /\ UNCHANGED mainVars
    /\ UNCHANGED <<rl, ft>>

\* move(os.path.join(ds.root, "tmp_file"), os.path.join(ds.root, img_name))
DS_MoveBack ==
    /\ dsk.pc = "ready"
    /\ \E n \in ImageNames \ dsk.present :
         dsk' = [dsk EXCEPT !.present = @ \cup {n}]
    /\ UNCHANGED mainVars
    /\ UNCHANGED <<rl, ft>>

NextDS ==
    \/ DS_Construct
    \/ DS_GetItem
    \/ DS_MoveAway
    \/ DS_MoveBack

SpecDS == InitDS /\ [][NextDS]_vars

(* -------------------- the training run, batch by batch ---------------- *)

\* --sched choices, line 609
Scheds == {"cosine", "onecycle", "poly"}

\* the frame of the training part of main (lines 466-554) for given
\* arguments and len(train_loader), before the scheduler is created
FTFrame(epochs, len, sched, amp, early) ==
    [pc |-> "scheduler", epochs |-> epochs, len |-> len, sched |-> sched,
     amp |-> amp, early_stop |-> early,
     has_scheduler |-> FALSE,
     total |-> 0,               \* number of steps the scheduler was built for
     has_scaler |-> FALSE,      \* fit_one_epoch's GradScaler
     epoch |-> 0,               \* loop variable of main
     batch_idx |-> 0,           \* batches fit_one_epoch has finished in this call
     fits |-> 0,                \* fit_one_epoch calls that returned
     sched_steps |-> 0,         \* scheduler.step() calls
     opt_steps |-> 0,           \* optimizer.step() / scaler.step(optimizer) calls
     grads |-> {},              \* the batches whose gradients sit in the parameters' .grad
     clipped |-> FALSE,         \* those gradients went through clip_grad_norm_
     log |-> <<>>,              \* the calls made, in order
     exc |-> "none"]

FTInit ==
    ft \in {FTFrame(e, n, s, a, es) : e \in 0 .. MaxFitEpochs, n \in 0 .. MaxFitLen,
                                     s \in Scheds, a \in BOOLEAN, es \in BOOLEAN}

InitFit == MainIdle /\ rl = RLIdle /\ dsk = DSIdle /\ FTInit

\* the batch fit_one_epoch is working on: (epoch counted from 1, batch counted from 1)
CurrentBatch == <<ft.epoch + 1, ft.batch_idx + 1>>

\* a call op made while working on the current batch, with the state of the
\* gradients it found
Call(op) == [op |-> op, batch |-> CurrentBatch, grads |-> ft.grads, clipped |-> ft.clipped]

\* variant of SchedTotal: the scheduler is built for one step per epoch
SchedTotalPerEpoch(epochs, len) == epochs

\* lines 468, 470, 472: the number of steps handed to the scheduler
SchedTotal(epochs, len) == epochs * len

\* lines 466-472: the scheduler of the chosen kind is created
FT_MakeScheduler ==
    /\ ft.pc = "scheduler"
    /\ ft' = [ft EXCEPT !.pc = "loop", !.has_scheduler = TRUE,
                        !.total = SchedTotal(ft.epochs, ft.len)]
    /\ UNCHANGED mainVars
    /\ UNCHANGED <<rl, dsk>>

\* lines 507-508 and 135-143: the loop header, the call of fit_one_epoch and
\* its preamble (a fresh GradScaler under AMP, model.train())
FT_FitEntry ==
    /\ ft.pc = "loop"
    /\ ft.epoch < ft.epochs
    /\ ft' = [ft EXCEPT !.pc = "next_batch", !.batch_idx = 0, !.has_scaler = ft.amp]
    /\ UNCHANGED mainVars
    /\ UNCHANGED <<rl, dsk>>

\* line 507: range(args.epochs) is exhausted
FT_LoopExit ==
    /\ ft.pc = "loop"
    /\ ~(ft.epoch < ft.epochs)
    /\ ft' = [ft EXCEPT !.pc = "done"]
    /\ UNCHANGED mainVars
    /\ UNCHANGED <<rl, dsk>>

\* lines 144-147: the loader yields its next batch
FT_NextBatch ==
    /\ ft.pc = "next_batch"
    /\ ft.batch_idx < ft.len
    /\ ft' = [ft EXCEPT !.pc = "zero_grad"]
    /\ UNCHANGED mainVars
    /\ UNCHANGED <<rl, dsk>>

\* variant of ZeroGrad: the gradients of the earlier batches are kept
ZeroGradKept(g) == g

\* optimizer.zero_grad(): no gradient is left
ZeroGrad(g) == {}

\* line 149
FT_ZeroGrad ==
    /\ ft.pc = "zero_grad"
    /\ ft' = [ft EXCEPT !.pc = "loss", !.grads = ZeroGrad(ft.grads), !.clipped = FALSE,
                        !.log = Append(@, Call("zero_grad"))]
    /\ UNCHANGED mainVars
    /\ UNCHANGED <<rl, dsk>>

\* lines 151-152 and 161: train_loss = model(images, targets)["loss"]
FT_Loss ==
    /\ ft.pc = "loss"
    /\ ft' = [ft EXCEPT !.pc = "backward", !.log = Append(@, Call("loss"))]
    /\ UNCHANGED mainVars
    /\ UNCHANGED <<rl, dsk>>

\* lines 153 and 162: backward() adds this batch's gradients to .grad
FT_Backward ==
    /\ ft.pc = "backward"
    /\ ft' = [ft EXCEPT !.pc = IF ft.amp THEN "unscale" ELSE "clip",
                        !.grads = @ \cup {CurrentBatch}, !.clipped = FALSE,
                        !.log = Append(@, Call("backward"))]
    /\ UNCHANGED mainVars
    /\ UNCHANGED <<rl, dsk>>

\* line 155, under AMP only: scaler.unscale_(optimizer)
FT_Unscale ==
    /\ ft.pc = "unscale"
    /\ ft' = [ft EXCEPT !.pc = "clip", !.log = Append(@, Call("unscale_"))]
    /\ UNCHANGED mainVars
    /\ UNCHANGED <<rl, dsk>>

\* lines 156 and 163: torch.nn.utils.clip_grad_norm_(model.parameters(), 5)
FT_Clip ==
    /\ ft.pc = "clip"
    /\ ft' = [ft EXCEPT !.pc = "optimizer_step", !.clipped = TRUE,
                        !.log = Append(@, Call("clip_grad_norm_"))]
    /\ UNCHANGED mainVars
    /\ UNCHANGED <<rl, dsk>>

\* lines 158 and 164: scaler.step(optimizer) under AMP, optimizer.step() without
FT_OptimizerStep ==
    /\ ft.pc = "optimizer_step"
    /\ ft' = [ft EXCEPT !.pc = IF ft.amp THEN "scaler_update" ELSE "scheduler_step",
                        !.opt_steps = @ + 1,
                        !.log = Append(@, Call("optimizer_step"))]
    /\ UNCHANGED mainVars
    /\ UNCHANGED <<rl, dsk>>

\* line 159, under AMP only: scaler.update()
FT_ScalerUpdate ==
    /\ ft.pc = "scaler_update"
    /\ ft' = [ft EXCEPT !.pc = "scheduler_step", !.log = Append(@, Call("scaler_update"))]
    /\ UNCHANGED mainVars
    /\ UNCHANGED <<rl, dsk>>

\* lines 166-171: scheduler.step() and the progress report; the batch is done
FT_SchedulerStep ==
    /\ ft.pc = "scheduler_step"
    /\ ft' = [ft EXCEPT !.pc = "next_batch", !.sched_steps = @ + 1,
                        !.batch_idx = @ + 1,
                        !.log = Append(@, Call("scheduler_step"))]
    /\ UNCHANGED mainVars
    /\ UNCHANGED <<rl, dsk>>

\* line 172, after the last batch: train_loss is unbound if there was no batch
FT_FitExit ==
    /\ ft.pc = "next_batch"
    /\ ~(ft.batch_idx < ft.len)
    /\ ft' = IF FitRaises(ft.len)
                THEN [ft EXCEPT !.pc = "raised", !.exc = "UnboundLocalError"]
                ELSE [ft EXCEPT !.pc = "rest", !.fits = @ + 1]
    /\ UNCHANGED mainVars
    /\ UNCHANGED <<rl, dsk>>

\* lines 509-554: the rest of the loop body (evaluations, checkpoints, logs),
\* which touches neither the optimizer nor the scheduler, and the early stop
FT_EpochRest ==
    /\ ft.pc = "rest"
    /\ \E stop \in (IF ft.early_stop THEN BOOLEAN ELSE {FALSE}) :
         ft' = IF stop THEN [ft EXCEPT !.pc = "done"]
                       ELSE [ft EXCEPT !.pc = "loop", !.epoch = @ + 1]
    /\ UNCHANGED mainVars
    /\ UNCHANGED <<rl, dsk>>

NextFit ==
    \/ FT_MakeScheduler
    \/ FT_FitEntry
    \/ FT_LoopExit
    \/ FT_NextBatch
    \/ FT_ZeroGrad
    \/ FT_Loss
    \/ FT_Backward
    \/ FT_Unscale
    \/ FT_Clip
    \/ FT_OptimizerStep
    \/ FT_ScalerUpdate
    \/ FT_SchedulerStep
    \/ FT_FitExit
    \/ FT_EpochRest

SpecFit == InitFit /\ [][NextFit]_vars

Next ==
    \/ Setup
    \/ TestOnly
    \/ LoadTrain
    \/ ShowSamples
    \/ MakeOptimizer
    \/ FindLr
    \/ Prepare
    \/ FitOneEpoch
    \/ Evaluate
    \/ Checkpoint
    \/ Log
    \/ EarlyStop
    \/ LoopExit
    \/ Finish

Spec == Init /\ [][Next]_vars

(* ===================== properties of main's loop ====================== *)

\* the epochs (counted from 1) whose validation loss has been computed
EpochsEvaluated == {events[i].epoch : i \in EventsOf("evaluate")} \ {0}

\* the validation loss of epoch k
LossOf(k) == events[CHOOSE i \in EventsIn("evaluate", k) : TRUE].val

\* main stands between two epochs' bookkeeping: every evaluated epoch went
\* through lines 525-532
Settled == pc \in {"log", "early_stop", "loop", "after_loop", "done"}

\* number of epochs completed through the checkpointing, in a settled state
EpochsDone == Cardinality(EpochsEvaluated)

\* a is a number strictly below b
StrictlyLower(a, b) == a # NaN /\ b # NaN /\ a < b

\* the minimum of the validation losses of epochs 1..k, NaN losses left out;
\* +infinity when there is none
MinUpTo(k) ==
    LET S == {Inf} \cup {LossOf(j) : j \in {i \in 1 .. k : LossOf(i) # NaN}}
    IN  CHOOSE m \in S : \A x \in S : m <= x

\* k is the earliest of the epochs 1..n whose loss equals the minimum of 1..n
EarliestBest(k, n) ==
    /\ k \in 1 .. n
    /\ LossOf(k) = MinUpTo(n)
    /\ \A j \in 1 .. (k - 1) : LossOf(j) # MinUpTo(n)

\* min_loss is the running minimum, and the best-model file is written in
\* exactly the epochs that strictly improve on all earlier ones
MinLossAndWrites ==
    /\ min_loss = MinUpTo(EpochsDone)
    /\ \A k \in 1 .. EpochsDone :
         /\ Cardinality(EventsIn("save_best", k)) <= 1
         /\ (EventsIn("save_best", k) # {}) <=> StrictlyLower(LossOf(k), MinUpTo(k - 1))

\* C1 as stated: after every completed epoch min_loss is the minimum
\* validation loss so far, the best-model file is written exactly in the
\* strictly improving epochs, and the file always holds the weights of the
\* earliest epoch that reached the current minimum.
C1_AsStated ==
    (Settled /\ EpochsDone >= 1) =>
        /\ MinLossAndWrites
        /\ \E k \in 1 .. EpochsDone :
             /\ EarliestBest(k, EpochsDone)
             /\ Exists(files, BestFile)
             /\ Held(files, BestFile) = k

\* C1 (amended): after every completed epoch min_loss is the minimum of the
\* non-NaN validation losses so far (+infinity if there is none), the
\* best-model file is written exactly in the epochs whose loss is strictly
\* lower than that minimum over the earlier epochs, and: if that minimum is
\* below +infinity the file holds the weights of the earliest epoch that
\* reached it, otherwise the file has not been written.
C1_BestCheckpoint ==
    (Settled /\ EpochsDone >= 1) =>
        /\ MinLossAndWrites
        /\ IF MinUpTo(EpochsDone) = Inf
              THEN ~Exists(files, BestFile)
              ELSE \E k \in 1 .. EpochsDone :
                     /\ EarliestBest(k, EpochsDone)
                     /\ Exists(files, BestFile)
                     /\ Held(files, BestFile) = k

\* a run in which the minimum was reached twice and a later epoch was worse:
\* the file still holds the first of the two
C1_Witness ==
    /\ pc = "done"
    /\ EpochsDone = 3
    /\ LossOf(1) = 0 /\ LossOf(2) = 0 /\ LossOf(3) = 1
    /\ Exists(files, BestFile)
    /\ Held(files, BestFile) = 1
    /\ min_loss = 0

\* the index of the only event of op in epoch k
IndexOf(op, k) == CHOOSE i \in EventsIn(op, k) : TRUE

\* the epochs (counted from 1) that ran to the end of the loop body
EpochsCompleted ==
    IF pc \in {"loop", "after_loop", "done"} THEN EpochsEvaluated
    ELSE EpochsEvaluated \ {epoch + 1}

\* some call of early_stop has returned true
Stopped == \E i \in EventsOf("early_stop") : events[i].stop

\* C2: with --early-stop, early_stop is called exactly once per executed
\* epoch, with that epoch's validation loss and after that epoch's
\* checkpointing and logging; once it has returned true no further
\* fit_one_epoch or evaluate call is made and the loop has ended; at most
\* args.epochs epochs run.
C2_EarlyStop ==
    args.early_stop =>
        /\ \A k \in EpochsCompleted :
             /\ Cardinality(EventsIn("early_stop", k)) = 1
             /\ events[IndexOf("early_stop", k)].val = LossOf(k)
             /\ \A i \in EventsIn("save_best", k) \cup EventsIn("save_epoch", k)
                         \cup EventsIn("log", k) \cup EventsIn("wandb_log", k)
                         \cup EventsIn("evaluate", k) :
                  i < IndexOf("early_stop", k)
             /\ EventsIn("log", k) # {}
        /\ \A i \in EventsOf("early_stop") : events[i].epoch \in EpochsCompleted
        /\ \A i \in EventsOf("early_stop") :
             events[i].stop =>
               /\ \A j \in (i + 1) .. Len(events) :
                    events[j].op \notin {"fit_one_epoch", "evaluate", "evaluate_funsd",
                                         "evaluate_cord", "early_stop"}
               /\ pc \in {"after_loop", "done"}
        /\ Count("fit_one_epoch") <= args.epochs

\* early_stop returned true in the second of three requested epochs, after a
\* first call that returned false, and main returned
C2_Witness ==
    /\ args.early_stop /\ args.epochs = 3 /\ args.save_interval_epoch
    /\ pc = "done"
    /\ Count("early_stop") = 2
    /\ Stopped
    /\ Count("fit_one_epoch") = 2

\* main went into the training loop and returned normally
LoopReturned ==
    /\ pc = "done"
    /\ ~args.test_only /\ ~args.show_samples /\ ~args.find_lr

EpochFiles == {f \in files : f.name[1] = "epoch"}

\* C4: with --save-interval-epoch, after every executed epoch k (counted
\* from 1) the model state of that epoch is saved to the per-epoch file of k,
\* one distinct file per epoch, whether or not the validation loss improved;
\* without the flag no per-epoch file is written.
C4_SaveInterval ==
    /\ ~args.save_interval_epoch => (EpochFiles = {} /\ Count("save_epoch") = 0)
    /\ (args.save_interval_epoch /\ Settled) =>
          /\ \A k \in 1 .. EpochsDone :
               /\ Exists(files, EpochFile(k))
               /\ Held(files, EpochFile(k)) = k
               /\ Cardinality(EventsIn("save_epoch", k)) = 1
          /\ Cardinality(EpochFiles) = EpochsDone
          /\ Cardinality({f.name : f \in EpochFiles}) = EpochsDone

\* two epochs, the second without improvement, each left its own file
C4_Witness ==
    /\ args.save_interval_epoch
    /\ pc = "done"
    /\ EpochsDone = 2
    /\ LossOf(1) = 0 /\ LossOf(2) = 1
    /\ EventsIn("save_best", 2) = {}
    /\ Exists(files, EpochFile(2))
    /\ Held(files, EpochFile(2)) = 2

\* C5: with --test-only, whatever the other flags, main evaluates on the
\* validation loader exactly once and returns: no training batch, no
\* optimizer or scheduler, no checkpoint, no FUNSD or CORD evaluation, no
\* push to the hub.
C5_TestOnly ==
    args.test_only =>
        /\ Count("fit_one_epoch") = 0
        /\ Count("record_lr") = 0
        /\ Count("plot_samples") = 0
        /\ created \cap {"train_loader", "optimizer", "scheduler", "early_stopper"} = {}
        /\ files = {}
        /\ Count("save_best") = 0 /\ Count("save_epoch") = 0
        /\ Count("evaluate_funsd") = 0 /\ Count("evaluate_cord") = 0
        /\ Count("push_to_hf_hub") = 0
        /\ Count("evaluate") <= 1
        /\ pc \in {"start", "test_only", "done", "raised"}
        /\ pc = "done" => Count("evaluate") = 1
        /\ pc = "raised" => (Count("evaluate") = 1 /\ exc = "ZeroDivisionError")

\* --test-only together with every other flag: one evaluation, then return
C5_Witness ==
    /\ args.test_only /\ args.show_samples /\ args.find_lr /\ args.push_to_hub
    /\ args.save_interval_epoch /\ args.early_stop /\ args.wb /\ args.epochs = 3
    /\ pc = "done"
    /\ Count("evaluate") = 1

\* number of one-shot modes that have run
ModesRun == Count("plot_samples") + Count("record_lr")
            + Cardinality(EventsIn("evaluate", 0))

\* C6: the one-shot modes are checked in the order --test-only,
\* --show-samples, --find-lr and the first one set ends main: --show-samples
\* returns after plotting one training batch without creating an optimizer,
\* --find-lr returns after record_lr without entering the epoch loop or
\* saving a checkpoint; at most one mode runs and none reaches the loop.
C6_OneShotModes ==
    /\ ModesRun <= 1
    /\ (args.test_only \/ args.show_samples \/ args.find_lr) =>
          /\ pc \notin {"loop", "evaluate", "checkpoint", "log", "early_stop", "after_loop"}
          /\ Count("fit_one_epoch") = 0
          /\ "scheduler" \notin created
          /\ files = {}
    /\ args.test_only =>
          /\ Count("plot_samples") = 0 /\ Count("record_lr") = 0
          /\ pc = "done" => Cardinality(EventsIn("evaluate", 0)) = 1
    /\ (~args.test_only /\ args.show_samples) =>
          /\ EventsIn("evaluate", 0) = {} /\ Count("record_lr") = 0
          /\ "optimizer" \notin created
          /\ pc = "done" => (Count("plot_samples") = 1
                             /\ events[Len(events)] = Event("plot_samples", 0, 1))
    /\ (~args.test_only /\ ~args.show_samples /\ args.find_lr) =>
          /\ EventsIn("evaluate", 0) = {} /\ Count("plot_samples") = 0
          /\ pc = "done" => (/\ Count("record_lr") = 1
                             /\ Count("plot_recorder") = 1
                             /\ events[Len(events)].op = "plot_recorder")
    /\ (~args.test_only /\ ~args.show_samples /\ ~args.find_lr) => ModesRun = 0

\* --show-samples and --find-lr both set: only the samples were plotted
C6_Witness ==
    /\ ~args.test_only /\ args.show_samples /\ args.find_lr
    /\ pc = "done"
    /\ Count("plot_samples") = 1
    /\ Count("record_lr") = 0

\* --find-lr alone: record_lr ran and main returned
C6_WitnessFindLr ==
    /\ ~args.test_only /\ ~args.show_samples /\ args.find_lr
    /\ pc = "done"
    /\ Count("record_lr") = 1

(* ===================== properties of record_lr ======================== *)

\* C7: record_lr raises ValueError, before changing the model or the
\* optimizer, whenever num_it is not lower than the number of batches of
\* train_loader.
C7_AsStated ==
    (rl.pc # "idle" /\ ~(rl.num_it < rl.len)) =>
        /\ rl.pc \in {"entry", "raised"}
        /\ rl.pc = "raised" => rl.exc = "ValueError"
        /\ ~rl.training /\ ~rl.lr_set /\ ~rl.has_scheduler /\ rl.steps = 0

\* C8: for 1 <= num_it <= len(train_loader) and all batch losses finite,
\* record_lr processes exactly num_it batches and returns a learning-rate
\* list and a loss list of length num_it; whenever it returns, the two lists
\* have the same length, at most num_it.
C8_AsStated ==
    /\ (rl.pc # "idle" /\ 1 <= rl.num_it /\ rl.num_it <= rl.len /\ ~rl.nonfinite) =>
          /\ rl.pc # "raised"
          /\ rl.steps <= rl.num_it
          /\ rl.pc = "returned" =>
               /\ rl.steps = rl.num_it
               /\ Len(rl.lrs) = rl.num_it
               /\ Len(rl.losses) = rl.num_it
    /\ rl.pc = "returned" =>
          /\ Len(rl.lrs) = Len(rl.losses)
          /\ Len(rl.losses) <= rl.num_it

(* ====================== properties of datasets ======================== *)

\* C9: for every sample of every dataset whose target is a dict, with or
\* without rotated boxes, the number of labels of the target equals its
\* number of boxes.
C9_BoxesMatchLabels ==
    (dsk.pc = "ready" /\ dsk.result = "ok" /\ dsk.ds.kind \in DictKinds) =>
        /\ \A i \in 1 .. Len(dsk.ds.data) :
             Len(dsk.ds.data[i].target.labels) = Len(dsk.ds.data[i].target.boxes)
        /\ \A i \in 1 .. Len(dsk.got) :
             Len(dsk.got[i].target.labels) = Len(dsk.got[i].target.boxes)

\* a rotated OCRDataset sample with two words, one of them with an empty
\* transcription, was fetched
C9_Witness ==
    /\ dsk.pc = "ready" /\ dsk.result = "ok"
    /\ dsk.ds.kind = "OCRDataset" /\ dsk.ds.rotated
    /\ Len(dsk.got) >= 1
    /\ Len(dsk.got[1].target.boxes) = 2
    /\ \E i \in 1 .. 2 : dsk.got[1].target.labels[i] = ""
    /\ \A i \in 1 .. 2 : dsk.got[1].target.boxes[i] = 5

\* C10: constructing a DetectionDataset, RecognitionDataset or OCRDataset
\* raises FileNotFoundError when an image named in the label file is missing
\* from the image folder, at construction and not on first access; with the
\* file back, construction succeeds again.
C10_MissingImage ==
    (dsk.pc = "ready" /\ dsk.tried \in FolderKinds) =>
        /\ ~(DOMAIN dsk.labels \subseteq dsk.seen)
              => (dsk.result = "FileNotFoundError" /\ dsk.ds = NoDataset /\ dsk.got = <<>>)
        /\ (DOMAIN dsk.labels \subseteq dsk.seen)
              => (dsk.result = "ok" /\ dsk.ds.kind = dsk.tried)

\* a construction raised while a file was away, and a later one, with every
\* file back, succeeded
C10_Witness ==
    /\ dsk.pc = "ready"
    /\ dsk.failed
    /\ dsk.result = "ok"
    /\ dsk.ds.kind \in FolderKinds
    /\ dsk.present = ImageNames

(* ================== properties of the training batches ================ *)

\* the batches fit_one_epoch has started
BatchesStarted == {ft.log[i].batch : i \in 1 .. Len(ft.log)}

\* the batches fit_one_epoch is through with
BatchesFinished ==
    IF ft.pc \in {"zero_grad", "loss", "backward", "unscale", "clip", "optimizer_step",
                  "scaler_update", "scheduler_step"}
       THEN BatchesStarted \ {CurrentBatch}
       ELSE BatchesStarted

\* the positions in the log of the calls of op made for batch b
CallsOf(op, b) == {i \in 1 .. Len(ft.log) : ft.log[i].op = op /\ ft.log[i].batch = b}

\* C11: over the whole run the scheduler is stepped exactly once per training
\* batch, so after e epochs it has been stepped e * len(train_loader) times,
\* never more than the args.epochs * len(train_loader) steps it was built
\* for, whichever of cosine, onecycle and poly was chosen.
C11_SchedulerSteps ==
    ft.pc # "idle" =>
        /\ \A b \in BatchesStarted : Cardinality(CallsOf("scheduler_step", b)) <= 1
        /\ \A b \in BatchesFinished : Cardinality(CallsOf("scheduler_step", b)) = 1
        /\ ft.sched_steps = Cardinality(BatchesFinished)
        /\ ft.pc = "loop" => ft.sched_steps = ft.epoch * ft.len
        /\ ft.pc = "rest" => ft.sched_steps = (ft.epoch + 1) * ft.len
        /\ ft.pc = "done" => ft.sched_steps = ft.fits * ft.len
        /\ ft.has_scheduler =>
             /\ ft.total = ft.epochs * ft.len
             /\ ft.sched_steps <= ft.total
        /\ ft.sched_steps > 0 => ft.has_scheduler

\* a onecycle run of two epochs of two batches used up exactly the four steps
\* its scheduler was built for
C11_Witness ==
    /\ ft.pc = "done"
    /\ ft.sched = "onecycle"
    /\ ft.epochs = 2 /\ ft.len = 2
    /\ ft.fits = 2
    /\ ft.sched_steps = 4
    /\ ft.total = 4

\* the steps of a batch the claim names, in the order it gives
StepOrder == <<"zero_grad", "loss", "backward", "clip_grad_norm_",
               "optimizer_step", "scheduler_step">>

StepNames == {StepOrder[i] : i \in 1 .. Len(StepOrder)}

\* the named steps made for batch b, in the order they were made
StepsOf(b) ==
    LET calls == SelectSeq(ft.log, LAMBDA c : c.batch = b /\ c.op \in StepNames)
    IN  [i \in 1 .. Len(calls) |-> calls[i].op]

\* C12: in every training batch, with or without AMP, the steps come in the
\* order gradients zeroed, loss computed, backward pass, gradient clipping
\* (after unscaling under AMP), optimizer step, scheduler step; clipping never
\* comes after the parameter update and the gradients of an earlier batch are
\* never accumulated into a later one.
C12_BatchOrder ==
    ft.pc # "idle" =>
        /\ \A b \in BatchesStarted :
             /\ Len(StepsOf(b)) <= Len(StepOrder)
             /\ StepsOf(b) = SubSeq(StepOrder, 1, Len(StepsOf(b)))
             /\ \A i \in CallsOf("clip_grad_norm_", b) :
                  /\ ft.log[i].grads = {b}
                  /\ IF ft.amp
                        THEN \E u \in CallsOf("unscale_", b) :
                               /\ u < i
                               /\ \A k \in CallsOf("backward", b) : k < u
                        ELSE CallsOf("unscale_", b) = {}
             /\ \A i \in CallsOf("optimizer_step", b) :
                  /\ ft.log[i].clipped
                  /\ ft.log[i].grads = {b}
                  /\ \A c \in CallsOf("clip_grad_norm_", b) : c < i
             /\ \A i \in CallsOf("backward", b) : ft.log[i].grads = {}
        /\ \A b \in BatchesFinished : StepsOf(b) = StepOrder
        /\ ft.opt_steps = Cardinality({b \in BatchesStarted : CallsOf("optimizer_step", b) # {}})

\* an AMP run went through the second batch of its second epoch
C12_Witness ==
    /\ ft.amp
    /\ ft.pc = "rest"
    /\ ft.epoch = 1
    /\ <<2, 2>> \in BatchesFinished
    /\ ft.opt_steps = 4
    /\ CallsOf("unscale_", <<2, 2>>) # {}

(* ================= properties of the experiment tracking =============== *)

\* the calls made inside the epoch loop
LoopOps == {"fit_one_epoch", "evaluate", "evaluate_funsd", "evaluate_cord", "save_best",
            "save_epoch", "log", "wandb_log", "early_stop"}

\* the positions of the calls made inside the epoch loop
LoopCalls == {i \in 1 .. Len(events) : events[i].op \in LoopOps /\ events[i].epoch >= 1}

\* what holds of the three calls once main is in or past the loop: one
\* wandb.init before the first epoch, one wandb.log per epoch that ran to the
\* end of its body, one run.finish after the loop
TrackedRun ==
    /\ Count("wandb_init") <= 1
    /\ Count("run_finish") <= 1
    /\ \A i \in EventsOf("wandb_init") : \A j \in LoopCalls : i < j
    /\ LoopCalls # {} => Count("wandb_init") = 1
    /\ \A k \in EpochsCompleted :
         /\ Cardinality(EventsIn("wandb_log", k)) = 1
         /\ events[IndexOf("wandb_log", k)].val = LossOf(k)
    /\ \A i \in EventsOf("wandb_log") :
         /\ events[i].epoch \in EpochsEvaluated
         /\ Cardinality(EventsIn("wandb_log", events[i].epoch)) = 1
    /\ \A i \in EventsOf("early_stop") :
         events[i].stop => \E j \in EventsIn("wandb_log", events[i].epoch) : j < i
    /\ \A i \in EventsOf("run_finish") :
         /\ \A j \in LoopCalls \cup EventsOf("wandb_init") : j < i
         /\ pc = "done"
    /\ Count("run_finish") = 1 => Count("wandb_init") = 1

\* none of wandb.init, wandb.log and run.finish has been called
Untracked ==
    /\ Count("wandb_init") = 0
    /\ Count("wandb_log") = 0
    /\ Count("run_finish") = 0

\* C13 as stated: with --wb, wandb.init is called once before the first
\* epoch, wandb.log exactly once per executed epoch, the early-stopping epoch
\* included, and run.finish exactly once after the loop ends normally or by
\* early stop; without --wb none of the three is called.
C13_AsStated ==
    /\ args.wb =>
          /\ TrackedRun
          /\ pc = "done" => (Count("wandb_init") = 1 /\ Count("run_finish") = 1)
    /\ ~args.wb => Untracked

\* C13 (amended): with --wb and none of --test-only, --show-samples and
\* --find-lr, wandb.init is called once before the first epoch, wandb.log
\* exactly once per executed epoch, the early-stopping epoch included, and
\* run.finish exactly once after the loop ends normally or by early stop;
\* without --wb, or with one of the three one-shot modes, none of the three
\* is called.
C13_Tracking ==
    IF args.wb /\ ~args.test_only /\ ~args.show_samples /\ ~args.find_lr
       THEN /\ TrackedRun
            /\ pc \in {"loop", "evaluate", "checkpoint", "log", "early_stop", "after_loop", "done"}
                  => Count("wandb_init") = 1
            /\ pc = "done" => Count("run_finish") = 1
            /\ pc # "done" => Count("run_finish") = 0
       ELSE Untracked

\* a tracked run of three requested epochs stopped early in its second one:
\* one init, two logs, one finish
C13_Witness ==
    /\ args.wb /\ args.early_stop /\ args.epochs = 3
    /\ pc = "done"
    /\ Stopped
    /\ Count("wandb_init") = 1
    /\ Count("wandb_log") = 2
    /\ Count("run_finish") = 1
    /\ EventsIn("wandb_log", 2) # {}

====
